---- MODULE Spec2Model ----
(***************************************************************************)
(* jadis (src/src/main.rs): the whole program is                           *)
(*                                                                         *)
(*     fn main() {                                                         *)
(*         let args: Vec<String> = env::args().collect();                  *)
(*         println!("{:?}", args);                                         *)
(*     }                                                                   *)
(*                                                                         *)
(* The model follows one run of the process: the operating system hands    *)
(* it an argument vector (argv), a standard output that may or may not     *)
(* accept the write, and a file system in which the arguments may or may   *)
(* not name class files. Text is a sequence of one-character strings.      *)
(*                                                                         *)
(* Library behaviour the two statements rely on (Rust std):                *)
(*   - env::args() yields each argument as a String and panics during      *)
(*     iteration if an argument is not valid Unicode;                      *)
(*   - Debug for Vec<String> writes [ e1, e2, ... ] with every element     *)
(*     written by Debug for str: wrapped in double quotes, with the double *)
(*     quote and the backslash escaped by a backslash;                     *)
(*   - println! appends a newline and panics if writing to stdout fails;   *)
(*   - a panic in main ends the process with exit code 101, a return from  *)
(*     main with exit code 0.                                              *)
(***************************************************************************)
EXTENDS Naturals, Integers, Sequences, FiniteSets

VARIABLES argv, fileKind, stdoutOk, pc, args, stdout, prints, exit

vars == <<argv, fileKind, stdoutOk, pc, args, stdout, prints, exit>>

\* ------------------------------------------------------------------ bounds

\* Longest argument, in characters.
MaxStrLen == 1

\* Most arguments after the program name.
MaxArgs == 1

\* ------------------------------------------------------------- environment

\* Stand-in for a byte sequence that is not valid Unicode (e.g. 0xFF).
InvalidByte == "X"

\* The characters arguments are made of: one that Debug writes as it is (the
\* comma, which is also the list separator of the output), the two that
\* Debug escapes, and the invalid byte.
Chars == {",", "\"", "\\", InvalidByte}

RECURSIVE StringsUpTo(_)
StringsUpTo(n) ==
    IF n = 0 THEN {<<>>}
    ELSE LET shorter == StringsUpTo(n - 1)
         IN  shorter \cup {Append(s, c) : s \in shorter, c \in Chars}

OsStrings == StringsUpTo(MaxStrLen)

\* Argument vectors: element 1 is the program name (Rust's args[0]).
ArgVectors == UNION {[1..n -> OsStrings] : n \in 1..(MaxArgs + 1)}

\* What the arguments name in the file system.
FileKinds == {"valid", "malformed", "missing"}

\* ------------------------------------------------------------ std helpers

\* OsString::into_string succeeds: the argument is valid Unicode.
IsValidUnicode(s) == \A i \in 1..Len(s) : s[i] # InvalidByte

AllValidUnicode(v) == \A i \in 1..Len(v) : IsValidUnicode(v[i])

\* char::escape_debug as Debug for str applies it.
EscapeDebug(c) ==
    IF c = "\"" THEN <<"\\", "\"">>
    ELSE IF c = "\\" THEN <<"\\", "\\">>
    ELSE <<c>>

RECURSIVE EscapeAll(_)
EscapeAll(s) ==
    IF s = <<>> THEN <<>> ELSE EscapeDebug(Head(s)) \o EscapeAll(Tail(s))

\* <str as Debug>::fmt
DebugStr(s) == <<"\"">> \o EscapeAll(s) \o <<"\"">>

RECURSIVE DebugEntries(_)
DebugEntries(v) ==
    IF v = <<>> THEN <<>>
    ELSE IF Len(v) = 1 THEN DebugStr(v[1])
    ELSE DebugStr(Head(v)) \o <<",", " ">> \o DebugEntries(Tail(v))

\* A variant that leaves out element 0.
DebugVecDroppingProgramName(v) == <<"[">> \o DebugEntries(Tail(v)) \o <<"]">>

\* <Vec<String> as Debug>::fmt, the "{:?}" of line 11.
DebugVec(v) == <<"[">> \o DebugEntries(v) \o <<"]">>

\* The text println!("{:?}", args) hands to stdout.
PrintlnText(v) == DebugVec(v) \o <<"\n">>

\* ------------------------------------------------------------------ main

Init ==
    /\ argv \in ArgVectors
    /\ fileKind \in FileKinds
    /\ stdoutOk \in BOOLEAN
    /\ pc = "start"
    /\ args = <<>>
    /\ stdout = <<>>
    /\ prints = 0
    /\ exit = -1

\* A variant of line 10 that opens the files the arguments name.
CollectOpeningFiles ==
    /\ pc = "start"
    /\ IF AllValidUnicode(argv) /\ fileKind = "valid"
       THEN /\ args' = argv
            /\ pc' = "collected"
            /\ exit' = exit
       ELSE /\ args' = args
            /\ pc' = "panicked"
            /\ exit' = 101
    /\ UNCHANGED <<argv, fileKind, stdoutOk, stdout, prints>>

\* Line 10: let args: Vec<String> = env::args().collect();
Collect ==
    /\ pc = "start"
    /\ IF AllValidUnicode(argv)
       THEN /\ args' = argv
            /\ pc' = "collected"
            /\ exit' = exit
       ELSE /\ args' = args
            /\ pc' = "panicked"
            /\ exit' = 101
    /\ UNCHANGED <<argv, fileKind, stdoutOk, stdout, prints>>

\* Line 11: println!("{:?}", args);
\* A failed write may have put any proper prefix of the text on stdout.
Println ==
    /\ pc = "collected"
    /\ prints' = prints + 1
    /\ LET text == PrintlnText(args)
       IN  IF stdoutOk
           THEN /\ stdout' = stdout \o text
                /\ pc' = "printed"
                /\ exit' = exit
           ELSE /\ \E k \in 0..(Len(text) - 1) :
                       stdout' = stdout \o SubSeq(text, 1, k)
                /\ pc' = "panicked"
                /\ exit' = 101
    /\ UNCHANGED <<argv, fileKind, stdoutOk, args>>

\* Line 12: main returns, the process ends successfully.
Return ==
    /\ pc = "printed"
    /\ pc' = "done"
    /\ exit' = 0
    /\ UNCHANGED <<argv, fileKind, stdoutOk, args, stdout, prints>>

Next == Collect \/ Println \/ Return

Spec == Init /\ [][Next]_vars

\* A running process keeps executing its next statement.
FairSpec == Spec /\ WF_vars(Next)

Terminated == pc \in {"done", "panicked"}

\* ------------------------------------------------- reading the output back

\* What a reader of stdout recovers: the inverse of Debug's quoting, written
\* independently of DebugVec. ok is FALSE when the text is not one complete
\* printed vector followed by its newline.
Unreadable == [ok |-> FALSE, value |-> <<>>]

RECURSIVE ReadStr(_, _, _)
ReadStr(t, i, acc) ==
    IF i > Len(t) THEN [ok |-> FALSE, str |-> acc, next |-> i]
    ELSE IF t[i] = "\"" THEN [ok |-> TRUE, str |-> acc, next |-> i + 1]
    ELSE IF t[i] = "\\"
         THEN IF i + 1 > Len(t) THEN [ok |-> FALSE, str |-> acc, next |-> i]
              ELSE ReadStr(t, i + 2, Append(acc, t[i + 1]))
    ELSE ReadStr(t, i + 1, Append(acc, t[i]))

RECURSIVE ReadEntries(_, _, _)
ReadEntries(t, i, acc) ==
    IF i > Len(t) \/ t[i] # "\"" THEN [ok |-> FALSE, value |-> acc, next |-> i]
    ELSE LET r == ReadStr(t, i + 1, <<>>)
             j == r.next
             got == Append(acc, r.str)
         IN  IF ~r.ok THEN [ok |-> FALSE, value |-> acc, next |-> i]
             ELSE IF j <= Len(t) /\ t[j] = "]"
                  THEN [ok |-> TRUE, value |-> got, next |-> j + 1]
             ELSE IF j + 1 <= Len(t) /\ t[j] = "," /\ t[j + 1] = " "
                  THEN ReadEntries(t, j + 2, got)
             ELSE [ok |-> FALSE, value |-> acc, next |-> i]

ReadPrinted(t) ==
    IF Len(t) < 3 \/ t[1] # "[" THEN Unreadable
    ELSE IF t[2] = "]"
         THEN IF Len(t) = 3 /\ t[3] = "\n"
              THEN [ok |-> TRUE, value |-> <<>>]
              ELSE Unreadable
    ELSE LET r == ReadEntries(t, 2, <<>>)
         IN  IF r.ok /\ r.next = Len(t) /\ t[r.next] = "\n"
             THEN [ok |-> TRUE, value |-> r.value]
             ELSE Unreadable

\* The run had Unicode arguments and a stdout that takes the write.
Healthy == AllValidUnicode(argv) /\ stdoutOk

\* ------------------------------------------------------------------ claims

\* C1 as stated: every invocation of main emits exactly one output, and that
\* output is the complete argument vector in command-line order (element 0
\* the program name), nothing dropped, added or reordered.
C1_EveryInvocationPrintsArgv ==
    Terminated =>
        /\ prints = 1
        /\ ReadPrinted(stdout) = [ok |-> TRUE, value |-> argv]

\* C1 as amended: an invocation whose arguments are all valid Unicode and
\* whose stdout accepts the write ends having executed exactly one print, and
\* the text on stdout reads back as the complete argument vector in
\* command-line order, whatever the arguments name in the file system. An
\* invocation with a non-Unicode argument panics before printing; one whose
\* write fails panics leaving no complete vector on stdout. Nothing is ever
\* printed twice.
C1_PrintsArgvWhenHealthy ==
    /\ prints <= 1
    /\ (Terminated /\ Healthy) =>
           /\ pc = "done"
           /\ prints = 1
           /\ ReadPrinted(stdout) = [ok |-> TRUE, value |-> argv]
    /\ (Terminated /\ ~AllValidUnicode(argv)) =>
           /\ pc = "panicked"
           /\ prints = 0
           /\ stdout = <<>>
    /\ (Terminated /\ AllValidUnicode(argv) /\ ~stdoutOk) =>
           /\ pc = "panicked"
           /\ ~ReadPrinted(stdout).ok

\* A finished run that printed a program name and one argument that needs
\* escaping and names no existing file.
C1_Witness ==
    /\ pc = "done"
    /\ prints = 1
    /\ Len(argv) = 2
    /\ argv[1] = <<",">>
    /\ argv[2] = <<"\"">>
    /\ fileKind = "missing"
    /\ stdout = <<"[", "\"", ",", "\"", ",", " ", "\"", "\\", "\"", "\"", "]", "\n">>

\* C10 as stated: for every list of valid-Unicode arguments main never ends
\* abnormally, and when it has ended it has printed exactly once, exited
\* successfully and produced an output fixed by the argument vector alone.
C10_UnicodeArgsAlwaysSucceed ==
    AllValidUnicode(argv) =>
        /\ pc # "panicked"
        /\ pc = "done" =>
               /\ prints = 1
               /\ exit = 0
               /\ stdout = PrintlnText(argv)

\* C10 as amended: for every list of valid-Unicode arguments and a stdout
\* that accepts the write, main reaches normal termination (exit code 0)
\* after exactly one print step, with an output that is a function of the
\* argument vector alone: the file system plays no part, so an argument
\* naming a missing or malformed class file changes nothing.
C10_TerminatesNormallyWhenHealthy ==
    /\ [](Healthy =>
              /\ pc # "panicked"
              /\ exit \in {-1, 0}
              /\ pc = "done" =>
                     /\ prints = 1
                     /\ exit = 0
                     /\ stdout = PrintlnText(argv))
    /\ (Healthy ~> (pc = "done" /\ exit = 0))

\* A successful run whose only argument names a malformed class file.
C10_Witness ==
    /\ pc = "done"
    /\ exit = 0
    /\ prints = 1
    /\ Len(argv) = 2
    /\ argv[2] = <<",">>
    /\ fileKind = "malformed"
    /\ stdoutOk

====
